---- MODULE Spec2Model ----
(***************************************************************************)
(* Model of src/data_cleaning_rules.py: class InsuranceDataCleaner, which  *)
(* owns one table (self.df) and cleans it in place through nine steps.     *)
(*                                                                         *)
(* Representation.                                                         *)
(*  - A table is [cols |-> set of column names, rows |-> sequence of rows]; *)
(*    a row is [idx |-> index label, v |-> function column name -> cell].  *)
(*  - A cell is None (<<>>, pandas NaN / None / NaT) or Some(x) (<<x>>).   *)
(*  - A comparison with a missing operand is false, as for NaN in pandas.  *)
(*  - The Cyrillic literals of the source are written transliterated.      *)
(*  - A text that the code strips / lower-cases / splits is kept as the    *)
(*    pieces those functions work on (padding, case, separator tokens).    *)
(***************************************************************************)
EXTENDS Integers, Sequences, FiniteSets, TLC

VARIABLES df, pc, trace, calls, outcomes, result, input

vars == <<df, pc, trace, calls, outcomes, result, input>>

---------------------------------------------------------------------------
(* Cells and NaN-aware arithmetic                                          *)

None == <<>>

Some(x) == <<x>>

IsNone(c) == c = <<>>

Val(c) == c[1]

Sub(a, b) == IF IsNone(a) \/ IsNone(b) THEN None ELSE Some(Val(a) - Val(b))

Gt(a, b) == ~IsNone(a) /\ ~IsNone(b) /\ Val(a) > Val(b)

Lt(a, b) == ~IsNone(a) /\ ~IsNone(b) /\ Val(a) < Val(b)

Ge(a, b) == ~IsNone(a) /\ ~IsNone(b) /\ Val(a) >= Val(b)

Le(a, b) == ~IsNone(a) /\ ~IsNone(b) /\ Val(a) <= Val(b)

---------------------------------------------------------------------------
(* Tables                                                                  *)

Range(s) == {s[i] : i \in 1..Len(s)}

Indexes(d) == {d.rows[i].idx : i \in 1..Len(d.rows)}

RowAt(d, k) == CHOOSE r \in Range(d.rows) : r.idx = k

\* DataFrame.drop(columns=cs) on columns that exist
DropColumns(d, cs) ==
    [cols |-> d.cols \ cs,
     rows |-> [i \in 1..Len(d.rows) |->
                 [idx |-> d.rows[i].idx,
                  v   |-> [c \in d.cols \ cs |-> d.rows[i].v[c]]]]]

\* df[c] = cells, where cells[i] is the new cell of the i-th row
SetColumn(d, c, cells) ==
    [cols |-> d.cols \cup {c},
     rows |-> [i \in 1..Len(d.rows) |->
                 [idx |-> d.rows[i].idx,
                  v   |-> [k \in d.cols \cup {c} |->
                             IF k = c THEN cells[i] ELSE d.rows[i].v[k]]]]]

\* df[mask] : the rows of the set keep, in their order
FilterRows(d, keep) == [cols |-> d.cols, rows |-> SelectSeq(d.rows, LAMBDA r : r \in keep)]

\* df.drop(index=labels)
DropIndex(d, labels) == FilterRows(d, {r \in Range(d.rows) : r.idx \notin labels})

\* the outcome of a step: the table it leaves in self.df and whether it raised
Done(d) == [raised |-> FALSE, df |-> d]

Raise(d) == [raised |-> TRUE, df |-> d]

---------------------------------------------------------------------------
(* drop_features                                                           *)

drop_targets == {"Unique number", "Citizenship", "Gender", "Loss_amount", "Accident_region"}

\* DataFrame.drop raises KeyError before removing anything when a label is absent
drop_features(d) ==
    IF drop_targets \subseteq d.cols THEN Done(DropColumns(d, drop_targets)) ELSE Raise(d)

---------------------------------------------------------------------------
(* adjust_invalid_driving_experience                                       *)

LegalAge == 18

\* line 27: the rows whose Age_gap is below 18 (strict)
StartedUnder18(r) == Lt(r.v["Age_gap"], Some(LegalAge))

\* variant: the adjustment taken from Age instead of Age_gap
AdjustmentFromAge(r) == Sub(Some(LegalAge), r.v["Age"])

\* line 28: adjustment = 18 - Age_gap
Adjustment(r) == Sub(Some(LegalAge), r.v["Age_gap"])

\* variant: the last filter keeps every row that has an experience (notna)
ExperiencePresent(r) == ~IsNone(r.v["Driving_experience"])

\* line 35: self.df = self.df[self.df['Driving_experience'] >= 0]
NonNegativeExperience(r) == Ge(r.v["Driving_experience"], Some(0))

adjust_invalid_driving_experience(d) ==
    IF ~({"Age", "Driving_experience"} \subseteq d.cols) THEN Raise(d)
    ELSE
      LET d1 == SetColumn(d, "Age_gap",
                          [i \in DOMAIN d.rows |->
                             Sub(d.rows[i].v["Age"], d.rows[i].v["Driving_experience"])])
          invalid_experience ==
              {r.idx : r \in {q \in Range(d1.rows) : Gt(q.v["Driving_experience"], q.v["Age"])}}
          d2 == DropIndex(d1, invalid_experience)
          started_under_18 == {r.idx : r \in {q \in Range(d2.rows) : StartedUnder18(q)}}
          d3 == SetColumn(d2, "Driving_experience",
                          [i \in DOMAIN d2.rows |->
                             IF d2.rows[i].idx \in started_under_18
                             THEN Sub(d2.rows[i].v["Driving_experience"], Adjustment(d2.rows[i]))
                             ELSE d2.rows[i].v["Driving_experience"]])
          d4 == DropColumns(d3, {"Age_gap"})
      IN Done(FilterRows(d4, {r \in Range(d4.rows) : NonNegativeExperience(r)}))

---------------------------------------------------------------------------
(* clean_vehicle_and_insurance_info                                        *)

\* str.strip on the column names that carry surrounding whitespace
Strip(c) ==
    CASE c = " Age"                 -> "Age"
      [] c = " Vehicle_type"        -> "Vehicle_type"
      [] c = " Year_of_manufacture" -> "Year_of_manufacture"
      [] c = " Insurance_period"    -> "Insurance_period"
      [] c = " Privileges"          -> "Privileges"
      [] c = " City"                -> "City"
      [] OTHER                      -> c

\* self.df.columns = self.df.columns.str.strip()
StripColumns(d) ==
    LET new == {Strip(c) : c \in d.cols}
    IN [cols |-> new,
        rows |-> [i \in 1..Len(d.rows) |->
                    [idx |-> d.rows[i].idx,
                     v   |-> [k \in new |->
                                d.rows[i].v[CHOOSE c \in d.cols : Strip(c) = k]]]]]

\* 'Pricep k gruzovoj a/m', 'Pricep k legkovoj a/m'
trailers == {"Pricep k gruzovoj a/m", "Pricep k legkovoj a/m"}

vehicle_mapping ==
    [t \in {"Legkovye avtomobili", "Motocikly i motorollery", "Gruzovye avtomobili",
            "Avtobusy do 16 p/m vkl.", "Avtobusy, svyshe 16 p/m"} |->
       CASE t = "Legkovye avtomobili"     -> "Legkovye avtomobili"
         [] t = "Motocikly i motorollery" -> "Motocikly"
         [] t = "Gruzovye avtomobili"     -> "Gruzovye"
         [] t = "Avtobusy do 16 p/m vkl." -> "Avtobusy"
         [] t = "Avtobusy, svyshe 16 p/m" -> "Avtobusy"]

\* Series.isin: a missing value is in no list
IsTrailer(r) == ~IsNone(r.v["Vehicle_type"]) /\ Val(r.v["Vehicle_type"]) \in trailers

\* variant: Series.replace(dict), which keeps a value that is no key of the dict
ReplaceVehicleType(c) ==
    IF ~IsNone(c) /\ Val(c) \in DOMAIN vehicle_mapping THEN Some(vehicle_mapping[Val(c)]) ELSE c

\* Series.map(dict): a value that is no key of the dict becomes NaN
MapVehicleType(c) ==
    IF ~IsNone(c) /\ Val(c) \in DOMAIN vehicle_mapping THEN Some(vehicle_mapping[Val(c)]) ELSE None

ReferenceYear == 2025

\* pd.to_datetime(..., errors='coerce').dt.year on a Year_of_manufacture cell:
\* an integer cell is read as nanoseconds since the epoch (the year 1970 for
\* every integer below 3.15 * 10^16), a year text as the 1st of January of that
\* year, anything else as NaT.
YearOf(c) ==
    IF IsNone(c) THEN None
    ELSE CASE Val(c).kind = "int"  -> Some(1970)
           [] Val(c).kind = "text" -> Some(Val(c).n)
           [] OTHER                -> None

clean_vehicle_and_insurance_info(d) ==
    LET d0 == StripColumns(d)
        d1 == FilterRows(d0, {r \in Range(d0.rows) : ~IsTrailer(r)})
        d2 == SetColumn(d1, "Vehicle_type",
                        [i \in DOMAIN d1.rows |-> MapVehicleType(d1.rows[i].v["Vehicle_type"])])
        d3 == SetColumn(d2, "Year_of_manufacture",
                        [i \in DOMAIN d2.rows |-> YearOf(d2.rows[i].v["Year_of_manufacture"])])
        d4 == SetColumn(d3, "Car_age",
                        [i \in DOMAIN d3.rows |->
                           Sub(Some(ReferenceYear), d3.rows[i].v["Year_of_manufacture"])])
    IN IF "Vehicle_type" \notin d0.cols THEN Raise(d0)
       ELSE IF "Year_of_manufacture" \notin d2.cols THEN Raise(d2)
       ELSE Done(DropColumns(d4, {"Year_of_manufacture"}))

---------------------------------------------------------------------------
(* split_insurance_dates                                                   *)

\* An Insurance_period text is a sequence of tokens: Hyphen for the character
\* '-', and for every maximal run of other characters the sequence of its
\* dot-separated numbers ("01.01.2024" is <<1, 1, 2024>>; a run that is no
\* such list of numbers is <<0>>).
Hyphen == <<>>

RECURSIVE SplitFrom(_, _, _, _)
SplitFrom(text, i, cur, acc) ==
    IF i > Len(text) THEN Append(acc, cur)
    ELSE IF text[i] = Hyphen THEN SplitFrom(text, i + 1, <<>>, Append(acc, cur))
    ELSE SplitFrom(text, i + 1, Append(cur, text[i]), acc)

\* str.split('-') of one text: its pieces, one more than its hyphens
Split(text) == SplitFrom(text, 1, <<>>, <<>>)

\* Series.str.split('-'): a missing value has no pieces
Pieces(c) == IF IsNone(c) THEN <<>> ELSE Split(Val(c))

\* the number of columns of the expanded split: the most pieces of any row
MaxPieces(rows) ==
    LET lens == {Len(Pieces(rows[i].v["Insurance_period"])) : i \in 1..Len(rows)}
    IN IF lens = {} THEN 0 ELSE CHOOSE n \in lens : \A m \in lens : m <= n

\* expand=True: column j of the split holds piece j, None where a row has fewer
Piece(c, j) == IF j <= Len(Pieces(c)) THEN Some(Pieces(c)[j]) ELSE None

IsLeap(y) == (y % 4 = 0 /\ y % 100 # 0) \/ y % 400 = 0

DaysInMonth(y, m) ==
    IF m = 2 THEN (IF IsLeap(y) THEN 29 ELSE 28)
    ELSE IF m \in {4, 6, 9, 11} THEN 30 ELSE 31

\* pd.to_datetime(..., format='%d.%m.%Y', errors='coerce') of one piece
ToDatetime(p) ==
    IF IsNone(p) \/ Len(Val(p)) # 1 THEN None
    ELSE LET f == Val(p)[1]
         IN IF Len(f) = 3 /\ f[3] \in 1678..2261 /\ f[2] \in 1..12
               /\ f[1] >= 1 /\ f[1] <= DaysInMonth(f[3], f[2])
            THEN Some([y |-> f[3], m |-> f[2], d |-> f[1]])
            ELSE None

\* assigning the split to the two keys raises ValueError unless it has two columns
split_insurance_dates(d) ==
    IF "Insurance_period" \notin d.cols THEN Raise(d)
    ELSE IF MaxPieces(d.rows) # 2 THEN Raise(d)
    ELSE LET d1 == SetColumn(d, "start_date",
                             [i \in DOMAIN d.rows |->
                                ToDatetime(Piece(d.rows[i].v["Insurance_period"], 1))])
         IN Done(SetColumn(d1, "end_date",
                           [i \in DOMAIN d1.rows |->
                              ToDatetime(Piece(d1.rows[i].v["Insurance_period"], 2))]))

---------------------------------------------------------------------------
(* calculate_insurance_duration                                            *)

DateLt(a, b) ==
    \/ a.y < b.y
    \/ a.y = b.y /\ a.m < b.m
    \/ a.y = b.y /\ a.m = b.m /\ a.d < b.d

\* relativedelta.__add__ with months only: the day is cut to the month's length
AddMonths(dt, k) ==
    LET t  == dt.y * 12 + (dt.m - 1) + k
        yy == t \div 12
        mm == (t % 12) + 1
        dm == DaysInMonth(yy, mm)
    IN [y |-> yy, m |-> mm, d |-> IF dt.d < dm THEN dt.d ELSE dm]

\* relativedelta(dt1, dt2): the month difference, corrected while it oversteps dt1
RECURSIVE CorrectMonths(_, _, _)
CorrectMonths(dt1, dt2, months) ==
    LET dtm == AddMonths(dt2, months)
    IN IF DateLt(dt1, dt2)
       THEN (IF DateLt(dtm, dt1) THEN CorrectMonths(dt1, dt2, months + 1) ELSE months)
       ELSE (IF DateLt(dt1, dtm) THEN CorrectMonths(dt1, dt2, months - 1) ELSE months)

RelativeMonths(dt1, dt2) ==
    CorrectMonths(dt1, dt2, (dt1.y - dt2.y) * 12 + (dt1.m - dt2.m))

\* relativedelta._set_months: years and months carry the sign of the total
DeltaYears(months) ==
    IF months < 0 THEN -((-months) \div 12) ELSE months \div 12

DeltaMonths(months) ==
    IF months < 0 THEN -((-months) % 12) ELSE months % 12

\* calculate_months(row): diff.years * 12 + (diff.months + 1)
calculate_months(r) ==
    LET total == RelativeMonths(Val(r.v["end_date"]), Val(r.v["start_date"]))
    IN Some(DeltaYears(total) * 12 + (DeltaMonths(total) + 1))

\* relativedelta of a NaT raises (its year and month are NaN)
HasNaT(r) == IsNone(r.v["end_date"]) \/ IsNone(r.v["start_date"])

calculate_insurance_duration(d) ==
    IF ~({"Insurance_period", "start_date", "end_date"} \subseteq d.cols) THEN Raise(d)
    ELSE IF \E r \in Range(d.rows) : HasNaT(r) THEN Raise(d)
    ELSE Done(DropColumns(SetColumn(d, "Insurance_months",
                                    [i \in DOMAIN d.rows |-> calculate_months(d.rows[i])]),
                          {"Insurance_period", "start_date", "end_date"}))

---------------------------------------------------------------------------
(* fill_missing_privileges                                                 *)

\* fillna('Ne invalid')
FillPrivilege(c) == IF IsNone(c) THEN Some("Ne invalid") ELSE c

\* variant: dropna on Privileges instead of fillna
drop_missing_privileges(d) ==
    IF "Privileges" \in d.cols
    THEN Done(FilterRows(d, {r \in Range(d.rows) : ~IsNone(r.v["Privileges"])}))
    ELSE Done(d)

fill_missing_privileges(d) ==
    IF "Privileges" \in d.cols
    THEN Done(SetColumn(d, "Privileges",
                        [i \in DOMAIN d.rows |-> FillPrivilege(d.rows[i].v["Privileges"])]))
    ELSE Done(d)

---------------------------------------------------------------------------
(* standardize_colors                                                      *)

\* A Color text is [pad, caps, low]: whether it has surrounding whitespace,
\* whether it has upper-case letters, and its letters stripped and lower-cased.
color_keys ==
    {"belyj", "snezhnaya koroleva", "zhemchuzhno-belyj", "belo-seryj", "chernyj",
     "chernyj metallik", "chernyj s fioletovym otlivom", "seryj", "temno-seryj",
     "grafit", "mokryj asfalt", "sinij", "temno-sinij", "yarko-sinij",
     "sine-zelenyj", "zelenyj", "lajm", "izumrudnyj", "olivkovyj", "krasnyj",
     "bordovyj", "vishnevyj", "korall", "zheltyj", "limonnyj", "svetlo-zheltyj",
     "korichnevyj", "mokko", "shokoladnyj", "fioletovyj", "sirenevyj", "lilovyj"}

color_mapping ==
    [k \in color_keys |->
       CASE k \in {"belyj", "snezhnaya koroleva", "zhemchuzhno-belyj", "belo-seryj"}
              -> "Belyj"
         [] k \in {"chernyj", "chernyj metallik", "chernyj s fioletovym otlivom"}
              -> "Chernyj"
         [] k \in {"seryj", "temno-seryj", "grafit", "mokryj asfalt"}
              -> "Seryj"
         [] k \in {"sinij", "temno-sinij", "yarko-sinij", "sine-zelenyj"}
              -> "Sinij"
         [] k \in {"zelenyj", "lajm", "izumrudnyj", "olivkovyj"}
              -> "Zelenyj"
         [] k \in {"krasnyj", "bordovyj", "vishnevyj", "korall"}
              -> "Krasnyj"
         [] k \in {"zheltyj", "limonnyj", "svetlo-zheltyj"}
              -> "Zheltyj"
         [] k \in {"korichnevyj", "mokko", "shokoladnyj"}
              -> "Korichnevyj"
         [] k \in {"fioletovyj", "sirenevyj", "lilovyj"}
              -> "Fioletovyj"]

\* Series.astype(str): a missing value becomes the text 'nan'
ColorAsStr(c) == IF IsNone(c) THEN [pad |-> FALSE, caps |-> FALSE, low |-> "nan"] ELSE Val(c)

\* col.strip().lower()
StripLower(t) == t.low

\* color_mapping.get(col.strip().lower(), 'Prochie')
MapColor(c) ==
    LET key == StripLower(ColorAsStr(c))
    IN IF key \in DOMAIN color_mapping THEN Some(color_mapping[key]) ELSE Some("Prochie")

\* variant: no guard, so that the lookup of an absent Color raises KeyError
standardize_colors_unguarded(d) ==
    IF "Color" \notin d.cols THEN Raise(d)
    ELSE Done(SetColumn(d, "Color", [i \in DOMAIN d.rows |-> MapColor(d.rows[i].v["Color"])]))

standardize_colors(d) ==
    IF "Color" \notin d.cols THEN Done(d)
    ELSE Done(SetColumn(d, "Color", [i \in DOMAIN d.rows |-> MapColor(d.rows[i].v["Color"])]))

---------------------------------------------------------------------------
(* standardize_brands_and_models                                           *)

TopBrands == 37

TopModels == 50

Column(d, c) == [i \in 1..Len(d.rows) |-> d.rows[i].v[c]]

\* the distinct present values of a column, in the order of their first occurrence
RECURSIVE FirstSeen(_, _, _)
FirstSeen(cells, i, seen) ==
    IF i > Len(cells) THEN seen
    ELSE IF IsNone(cells[i]) \/ Val(cells[i]) \in Range(seen)
         THEN FirstSeen(cells, i + 1, seen)
         ELSE FirstSeen(cells, i + 1, Append(seen, Val(cells[i])))

CountOf(cells, x) == Cardinality({i \in 1..Len(cells) : cells[i] = Some(x)})

\* the place of x in `sorted`: behind every value whose count is at least its own
InsertAt(sorted, x, cells) ==
    Cardinality({k \in 1..Len(sorted) : CountOf(cells, sorted[k]) >= CountOf(cells, x)})

InsertByCount(sorted, x, cells) ==
    LET k == InsertAt(sorted, x, cells)
    IN SubSeq(sorted, 1, k) \o <<x>> \o SubSeq(sorted, k + 1, Len(sorted))

RECURSIVE SortByCount(_, _, _, _)
SortByCount(todo, i, sorted, cells) ==
    IF i > Len(todo) THEN sorted
    ELSE SortByCount(todo, i + 1, InsertByCount(sorted, todo[i], cells), cells)

\* variant: the distinct values left in the order of their first occurrence
value_counts_unsorted(cells) == FirstSeen(cells, 1, <<>>)

\* Series.value_counts().index: missing values are not counted; most frequent
\* first, equal counts in the order of first occurrence
value_counts(cells) == SortByCount(FirstSeen(cells, 1, <<>>), 1, <<>>, cells)

\* .nlargest(n).index of a value_counts(): its first n entries
nlargest(counted, n) == Range(SubSeq(counted, 1, IF Len(counted) < n THEN Len(counted) ELSE n))

\* Series.replace(old, new)
Replace(c, old, new) == IF c = Some(old) THEN Some(new) ELSE c

\* lambda b: b if b in top else 'Other' (a missing value is in no index)
KeepTop(c, top) == IF ~IsNone(c) /\ Val(c) \in top THEN c ELSE Some("Other")

StandardizeBrand(d) ==
    IF "Brand" \notin d.cols THEN d
    ELSE LET d1 == SetColumn(d, "Brand",
                             [i \in DOMAIN d.rows |->
                                Replace(d.rows[i].v["Brand"], "Lada (cyr)", "Lada")])
             top_brands == nlargest(value_counts(Column(d1, "Brand")), TopBrands)
         IN SetColumn(d1, "Brand",
             [i \in DOMAIN d1.rows |->
                KeepTop(d1.rows[i].v["Brand"], top_brands)])

StandardizeModel(d) ==
    IF "Model" \notin d.cols THEN d
    ELSE LET d1 == SetColumn(d, "Model",
                             [i \in DOMAIN d.rows |->
                                Replace(d.rows[i].v["Model"], ".", "Unknown")])
             top_models == nlargest(value_counts(Column(d1, "Model")), TopModels)
         IN SetColumn(d1, "Model",
             [i \in DOMAIN d1.rows |->
                KeepTop(d1.rows[i].v["Model"], top_models)])

standardize_brands_and_models(d) == Done(StandardizeModel(StandardizeBrand(d)))

---------------------------------------------------------------------------
(* map_city_to_region                                                      *)

\* A City text is the sequence of its comma-separated parts, each [pad, text]:
\* whether the part has surrounding whitespace, and the part stripped.
region_keys ==
    {"Almaty", "Nur-Sultan", "Aktobe", "Petropavlovsk", "Kokshetau", "Kostanaj",
     "Pavlodar", "Karaganda", "Semej", "Aktau", "Atyrau", "Uralsk", "Taldykorgan",
     "Shymkent", "Kyzylorda", "Taraz", "Ust-Kamenogorsk", "Rudnyj", "Temirtau",
     "Esik", "Atbasar", "Zhaksy", "Esil", "Krasnyj Yar", "Marinovka", "Zaporozhe",
     "Novoaleksandrovka", "Balkashino", "Lozovoe", "Talgar", "Esengeldy",
     "Novokienka", "Borisovka", "Arshaly", "Maksimovka", "Boraldaj", "Pokrovka",
     "Oktyabrskoe", "Sadovoe", "Timashevka"}

region_mapping ==
    [k \in region_keys |->
       CASE k \in {"Almaty", "Taldykorgan", "Esik", "Talgar", "Esengeldy", "Boraldaj"}
              -> "Almatinskaya oblast"
         [] k \in {"Nur-Sultan"}
              -> "Astana"
         [] k \in {"Aktobe", "Krasnyj Yar", "Pokrovka", "Oktyabrskoe"}
              -> "Aktyubinskaya oblast"
         [] k \in {"Petropavlovsk", "Esil", "Borisovka", "Sadovoe"}
              -> "Severo-Kazahstanskaya oblast"
         [] k \in {"Kokshetau", "Atbasar", "Zhaksy", "Balkashino", "Arshaly", "Maksimovka"}
              -> "Akmolinskaya oblast"
         [] k \in {"Kostanaj", "Rudnyj", "Marinovka", "Zaporozhe", "Novoaleksandrovka",
                "Lozovoe", "Novokienka", "Timashevka"}
              -> "Kostanajskaya oblast"
         [] k \in {"Pavlodar"}
              -> "Pavlodarskaya oblast"
         [] k \in {"Karaganda", "Temirtau"}
              -> "Karagandinskaya oblast"
         [] k \in {"Semej", "Ust-Kamenogorsk"}
              -> "Vostochno-Kazahstanskaya oblast"
         [] k \in {"Aktau"}
              -> "Mangistauskaya oblast"
         [] k \in {"Atyrau"}
              -> "Atyrauskaya oblast"
         [] k \in {"Uralsk"}
              -> "Zapadno-Kazahstanskaya oblast"
         [] k \in {"Shymkent"}
              -> "Turkestanskaya oblast"
         [] k \in {"Kyzylorda"}
              -> "Kyzylordinskaya oblast"
         [] k \in {"Taraz"}
              -> "Zhambylskaya oblast"]

\* Series.astype(str): a missing value becomes the text 'nan'
CityAsStr(c) == IF IsNone(c) THEN <<[pad |-> FALSE, text |-> "nan"]>> ELSE Val(c)

\* x.split(',')[0].strip()
CityCleaned(c) == Some(CityAsStr(c)[1].text)

\* Series.map(region_mapping), then fillna('Unknown')
MapRegion(c) ==
    IF ~IsNone(c) /\ Val(c) \in DOMAIN region_mapping THEN Some(region_mapping[Val(c)]) ELSE None

FillRegion(c) == IF IsNone(c) THEN Some("Unknown") ELSE c

map_city_to_region(d) ==
    IF "City" \notin d.cols THEN Done(d)
    ELSE LET d1 == SetColumn(d, "City_cleaned",
                             [i \in DOMAIN d.rows |-> CityCleaned(d.rows[i].v["City"])])
             d2 == SetColumn(d1, "Region",
                             [i \in DOMAIN d1.rows |-> MapRegion(d1.rows[i].v["City_cleaned"])])
             d3 == DropColumns(d2, {"City_cleaned", "City"})
         IN Done(SetColumn(d3, "Region",
             [i \in DOMAIN d3.rows |->
                FillRegion(d3.rows[i].v["Region"])]))

---------------------------------------------------------------------------
(* The tables the cleaner is constructed on                                *)

MaxRows == 2

MaxCalls == 2

required_columns ==
    drop_targets \cup {"Age", "Driving_experience", "Vehicle_type", "Year_of_manufacture",
                       "Insurance_period"}

optional_columns == {"Privileges", "Color", "Brand", "Model", "City"}

AllColumns == required_columns \cup optional_columns

Date(d, m, y) == <<d, m, y>>

\* "01.01.2024-31.03.2024"
Period(a, b) == Some(<<a, Hyphen, b>>)

Text(low) == Some([pad |-> FALSE, caps |-> FALSE, low |-> low])

DefaultCells ==
    [c \in AllColumns |->
       CASE c = "Unique number"       -> Some(1001)
         [] c = "Citizenship"         -> Some("KZ")
         [] c = "Gender"              -> Some("F")
         [] c = "Loss_amount"         -> Some(0)
         [] c = "Accident_region"     -> Some("Astana")
         [] c = "Age"                 -> Some(40)
         [] c = "Driving_experience"  -> Some(5)
         [] c = "Vehicle_type"        -> Some("Legkovye avtomobili")
         [] c = "Year_of_manufacture" -> Some([kind |-> "text", n |-> 2015])
         [] c = "Insurance_period"    -> Period(Date(1, 1, 2024), Date(31, 3, 2024))
         [] c = "Privileges"          -> None
         [] c = "Color"               -> Some([pad |-> TRUE, caps |-> TRUE, low |-> "temno-seryj"])
         [] c = "Brand"               -> Some("Toyota")
         [] c = "Model"               -> Some("Camry")
         [] c = "City"                -> Some(<<[pad |-> FALSE, text |-> "Almaty"],
                                                [pad |-> TRUE, text |-> "mkr. Samal"]>>)]

\* the default cells with the cells of `over` in their place
With(over) == [c \in AllColumns |-> IF c \in DOMAIN over THEN over[c] ELSE DefaultCells[c]]

AgeValues == {None, Some(17), Some(18), Some(20), Some(40)}

ExperienceValues == {None, Some(0), Some(5), Some(22), Some(25)}

VehicleValues ==
    {None, Some("Traktor")} \cup {Some(t) : t \in trailers \cup DOMAIN vehicle_mapping}

YearValues == {None, Some([kind |-> "int", n |-> 2015]), Some([kind |-> "junk", n |-> 0])}

PeriodValues ==
    {None,
     Some(<<Date(1, 1, 2024)>>),
     Some(<<Date(1, 1, 2024), Hyphen, Date(31, 3, 2024), Hyphen, Date(1, 4, 2024)>>),
     Period(<<0>>, Date(31, 3, 2024)),
     Period(Date(1, 1, 2024), Date(31, 2, 2024)),
     Period(Date(15, 1, 2024), Date(14, 1, 2025)),
     Period(Date(31, 3, 2024), Date(1, 1, 2024))}

ColorValues == {None, Text("rozovyj"), Text("belyj")}

CityValues ==
    {None, Some(<<[pad |-> FALSE, text |-> "Nowhereville"]>>),
     Some(<<[pad |-> TRUE, text |-> "Nur-Sultan"]>>)}

Catalog ==
    {With("Age" :> a @@ "Driving_experience" :> e) : a \in AgeValues, e \in ExperienceValues}
    \cup {With("Age" :> Some(17) @@ "Driving_experience" :> Some(-10))}
    \cup {With("Vehicle_type" :> t) : t \in VehicleValues}
    \cup {With("Year_of_manufacture" :> y) : y \in YearValues}
    \cup {With("Insurance_period" :> p) : p \in PeriodValues}
    \cup {With("Privileges" :> Some("Invalid 2 gruppy"))}
    \cup {With("Color" :> c) : c \in ColorValues}
    \cup {With("Brand" :> b @@ "Model" :> m) :
            b \in {None, Some("Lada (cyr)"), Some("Lada")}, m \in {None, Some(".")}}
    \cup {With("City" :> c) : c \in CityValues}

\* the rows that follow the first one
Companions ==
    {DefaultCells,
     With("Age" :> Some(20) @@ "Driving_experience" :> Some(25)),
     With("Age" :> Some(20) @@ "Driving_experience" :> Some(5)),
     With("Age" :> None),
     With("Vehicle_type" :> Some("Pricep k legkovoj a/m")),
     With("Vehicle_type" :> Some("Traktor")),
     With("Insurance_period" :> Some(<<Date(1, 1, 2024)>>)),
     With("Brand" :> Some("Lada (cyr)") @@ "Model" :> Some("."))}

RECURSIVE RowLists(_, _)
RowLists(first, n) ==
    IF n = 0 THEN {<<>>}
    ELSE IF n = 1 THEN {<<f>> : f \in first}
    ELSE {Append(l, c) : l \in RowLists(first, n - 1), c \in Companions}

\* pd.read_excel: the rows get the index labels 0, 1, 2, ...
Table(cs, cells) ==
    [cols |-> cs,
     rows |-> [i \in 1..Len(cells) |->
                 [idx |-> i - 1, v |-> [c \in cs |-> cells[i][Strip(c)]]]]]

\* a column absent, or present under a name with surrounding whitespace
ColumnVariants ==
    {AllColumns \ {c} : c \in AllColumns}
    \cup {AllColumns \ {"Brand", "Model"}, AllColumns \ optional_columns}
    \cup {(AllColumns \ {Strip(c)}) \cup {c} :
            c \in {" Age", " Vehicle_type", " Year_of_manufacture", " Insurance_period",
                   " Privileges", " City"}}

InputTables ==
    {Table(AllColumns, l) : l \in UNION {RowLists(Catalog, n) : n \in 0..MaxRows}}
    \cup {Table(cs, l) : cs \in ColumnVariants,
                         l \in UNION {RowLists(Companions, n) : n \in 1..MaxRows}}

---------------------------------------------------------------------------
(* clean(): the calls of the nine steps, one action each                   *)

\* variant: the duration calculated before the dates are split
clean_body_swapped ==
    <<"drop_features", "adjust_invalid_driving_experience",
      "clean_vehicle_and_insurance_info", "calculate_insurance_duration",
      "split_insurance_dates", "fill_missing_privileges", "standardize_colors",
      "standardize_brands_and_models", "map_city_to_region">>

\* lines 218-226, in the order of the calls
clean_body ==
    <<"drop_features", "adjust_invalid_driving_experience",
      "clean_vehicle_and_insurance_info", "split_insurance_dates",
      "calculate_insurance_duration", "fill_missing_privileges", "standardize_colors",
      "standardize_brands_and_models", "map_city_to_region">>

\* what clean() does after the call of `step` has returned
After(step) ==
    LET i == CHOOSE k \in 1..Len(clean_body) : clean_body[k] = step
    IN IF i < Len(clean_body) THEN clean_body[i + 1] ELSE "return"

Init ==
    /\ df \in InputTables
    /\ input = df
    /\ pc = "idle"
    /\ trace = <<>>
    /\ calls = 0
    /\ outcomes = <<>>
    /\ result = None

\* the caller calls clean() on the object
Clean ==
    /\ pc = "idle"
    /\ calls < MaxCalls
    /\ calls' = calls + 1
    /\ pc' = clean_body[1]
    /\ trace' = <<>>
    /\ UNCHANGED <<df, outcomes, result, input>>

\* the end of one step's call: self.df as the step leaves it; its exception
\* ends clean(), otherwise clean() goes on to its next line
Finish(name, out) ==
    /\ df' = out.df
    /\ IF out.raised
       THEN /\ pc' = "idle"
            /\ outcomes' = Append(outcomes, "raised")
            /\ trace' = trace
       ELSE /\ pc' = After(name)
            /\ outcomes' = outcomes
            /\ trace' = Append(trace, name)
    /\ UNCHANGED <<calls, result, input>>

DropFeatures ==
    /\ pc = "drop_features"
    /\ Finish("drop_features", drop_features(df))

AdjustInvalidDrivingExperience ==
    /\ pc = "adjust_invalid_driving_experience"
    /\ Finish("adjust_invalid_driving_experience", adjust_invalid_driving_experience(df))

CleanVehicleAndInsuranceInfo ==
    /\ pc = "clean_vehicle_and_insurance_info"
    /\ Finish("clean_vehicle_and_insurance_info", clean_vehicle_and_insurance_info(df))

SplitInsuranceDates ==
    /\ pc = "split_insurance_dates"
    /\ Finish("split_insurance_dates", split_insurance_dates(df))

CalculateInsuranceDuration ==
    /\ pc = "calculate_insurance_duration"
    /\ Finish("calculate_insurance_duration", calculate_insurance_duration(df))

FillMissingPrivileges ==
    /\ pc = "fill_missing_privileges"
    /\ Finish("fill_missing_privileges", fill_missing_privileges(df))

StandardizeColors ==
    /\ pc = "standardize_colors"
    /\ Finish("standardize_colors", standardize_colors(df))

StandardizeBrandsAndModels ==
    /\ pc = "standardize_brands_and_models"
    /\ Finish("standardize_brands_and_models", standardize_brands_and_models(df))

MapCityToRegion ==
    /\ pc = "map_city_to_region"
    /\ Finish("map_city_to_region", map_city_to_region(df))

\* return self.df
Return ==
    /\ pc = "return"
    /\ result' = Some(df)
    /\ outcomes' = Append(outcomes, "returned")
    /\ pc' = "idle"
    /\ UNCHANGED <<df, trace, calls, input>>

Next ==
    \/ Clean
    \/ DropFeatures
    \/ AdjustInvalidDrivingExperience
    \/ CleanVehicleAndInsuranceInfo
    \/ SplitInsuranceDates
    \/ CalculateInsuranceDuration
    \/ FillMissingPrivileges
    \/ StandardizeColors
    \/ StandardizeBrandsAndModels
    \/ MapCityToRegion
    \/ Return

Spec == Init /\ [][Next]_vars

---------------------------------------------------------------------------
(* Tables with more distinct brands and models than the steps keep         *)

MaxExtra == 2

Name(i) == "v" \o ToString(i)

Min(a, b) == IF a < b THEN a ELSE b

\* `extra`, then the values v1 .. vn once each, then vlo .. vhi once more
Distribution(n, lo, hi, extra) ==
    extra \o [i \in 1..n |-> Some(Name(i))] \o [j \in 1..(hi - lo + 1) |-> Some(Name(lo + j - 1))]

Distributions(top, extras) ==
    {Distribution(n, lo, hi, e) :
        n \in {1} \cup ((top - 1)..(top + MaxExtra)), lo \in {1, top, top + 1},
        hi \in {0, 1, top, top + MaxExtra}, e \in extras}

BrandColumns ==
    Distributions(TopBrands, {<<>>, <<None>>, <<Some("Lada (cyr)"), Some("Lada")>>})

ModelColumns ==
    Distributions(TopModels, {<<>>, <<None>>, <<Some("."), Some("Unknown")>>})

TopNTables ==
    {Table(AllColumns, [i \in 1..Len(col) |-> With("Brand" :> col[i])]) : col \in BrandColumns}
    \cup {Table(AllColumns, [i \in 1..Len(col) |-> With("Model" :> col[i])]) : col \in ModelColumns}

InitTopN ==
    /\ df \in TopNTables
    /\ input = df
    /\ pc = "idle"
    /\ trace = <<>>
    /\ calls = 0
    /\ outcomes = <<>>
    /\ result = None

SpecTopN == InitTopN /\ [][Next]_vars

---------------------------------------------------------------------------
(* Properties                                                              *)

NineSteps ==
    <<"drop_features", "adjust_invalid_driving_experience",
      "clean_vehicle_and_insurance_info", "split_insurance_dates",
      "calculate_insurance_duration", "fill_missing_privileges", "standardize_colors",
      "standardize_brands_and_models", "map_city_to_region">>

\* the last call of clean() has returned and no other call has started
Returned == pc = "idle" /\ outcomes # <<>> /\ outcomes[Len(outcomes)] = "returned"

\* the table the first call of clean() returned
FirstReturned == outcomes # <<>> /\ outcomes[1] = "returned"

\* the cell of the loaded table in row k and the column called c (or c with
\* a leading blank)
InputCell(k, c) ==
    IF c \in input.cols THEN RowAt(input, k).v[c] ELSE RowAt(input, k).v[" " \o c]

\* C1: within one call of clean() the steps that have completed are always the
\* first steps of the fixed list of nine, the step about to run is the next of
\* the list, split_insurance_dates has completed (and left its two columns)
\* when calculate_insurance_duration starts, and clean() returns only after
\* all nine have completed, each once.
C1_StepsInOrder ==
    /\ Len(trace) <= Len(NineSteps)
    /\ trace = SubSeq(NineSteps, 1, Len(trace))
    /\ pc # "idle" =>
         pc = IF Len(trace) < Len(NineSteps) THEN NineSteps[Len(trace) + 1] ELSE "return"
    /\ pc = "calculate_insurance_duration" =>
         /\ \E i \in 1..Len(trace) : trace[i] = "split_insurance_dates"
         /\ {"start_date", "end_date"} \subseteq df.cols
    /\ (pc = "return" \/ Returned) => trace = NineSteps

C1_Witness == Returned /\ trace = NineSteps /\ Len(Val(result).rows) > 0

\* C2 (as claimed): every row of a returned table has
\* Driving_experience <= Age and Driving_experience >= 0.
C2_ExperienceWithinAge ==
    result # None =>
      \A r \in Range(Val(result).rows) :
         /\ Le(r.v["Driving_experience"], r.v["Age"])
         /\ Ge(r.v["Driving_experience"], Some(0))

CanonicalVehicleTypes == {"Legkovye avtomobili", "Motocikly", "Gruzovye", "Avtobusy"}

MappedLabels ==
    {"Legkovye avtomobili", "Motocikly i motorollery", "Gruzovye avtomobili",
     "Avtobusy do 16 p/m vkl.", "Avtobusy, svyshe 16 p/m"}

\* C3 (as claimed): every row of a returned table has a Vehicle_type that is
\* one of the four canonical categories.
C3_VehicleTypeCanonical ==
    result # None =>
      \A r \in Range(Val(result).rows) :
         /\ ~IsNone(r.v["Vehicle_type"])
         /\ Val(r.v["Vehicle_type"]) \in CanonicalVehicleTypes

\* C3 (amended): every row of a returned table has a Vehicle_type that is one
\* of the four canonical categories or missing; it is missing exactly when the
\* row's loaded Vehicle_type is missing or none of the five mapped labels, and
\* no row loaded with a trailer category is in the returned table.
C3_VehicleTypeCanonicalOrMissing ==
    FirstReturned =>
      \A r \in Range(Val(result).rows) :
         LET loaded == InputCell(r.idx, "Vehicle_type")
         IN /\ IsNone(r.v["Vehicle_type"]) \/ Val(r.v["Vehicle_type"]) \in CanonicalVehicleTypes
            /\ IsNone(r.v["Vehicle_type"]) <=> (IsNone(loaded) \/ Val(loaded) \notin MappedLabels)
            /\ IsNone(loaded) \/ Val(loaded) \notin trailers

C3_Witness ==
    /\ FirstReturned
    /\ \E r \in Range(Val(result).rows) : IsNone(r.v["Vehicle_type"])
    /\ \E r \in Range(Val(result).rows) : r.v["Vehicle_type"] = Some("Avtobusy")

\* C4 (as claimed): when the first call of clean() has returned, a second call
\* on the same object returns too.
C4_SecondCleanReturns ==
    (Len(outcomes) >= 2 /\ outcomes[1] = "returned") => outcomes[2] = "returned"

\* the text has not exactly one hyphen, or a piece of it is no day.month.year date
Malformed(c) ==
    /\ ~IsNone(c)
    /\ \/ Cardinality({i \in 1..Len(Val(c)) : Val(c)[i] = Hyphen}) # 1
       \/ \E j \in 1..Len(Split(Val(c))) : IsNone(ToDatetime(Some(Split(Val(c))[j])))

Unparsable(c) == ~IsNone(c) /\ Val(c).kind = "junk"

\* C5 (as claimed): on a table that has every required column and in which some
\* Insurance_period is malformed or some Year_of_manufacture is unparsable,
\* clean() returns, and a returned row loaded with such a value has no
\* Insurance_months, respectively no Car_age.
C5_ParseInconsistencyNeverAborts ==
    (/\ outcomes # <<>>
     /\ required_columns \subseteq input.cols
     /\ \E k \in Indexes(input) : \/ Malformed(InputCell(k, "Insurance_period"))
                                  \/ Unparsable(InputCell(k, "Year_of_manufacture")))
    => /\ outcomes[1] = "returned"
       /\ \A r \in Range(Val(result).rows) :
            /\ Malformed(InputCell(r.idx, "Insurance_period")) => IsNone(r.v["Insurance_months"])
            /\ Unparsable(InputCell(r.idx, "Year_of_manufacture")) => IsNone(r.v["Car_age"])

\* the step at pc raises, ending clean() with no later step run
Raises == pc' = "idle" /\ outcomes' = Append(outcomes, "raised") /\ trace' = trace

\* the step at pc completes and clean() goes on to the step after it
Continues == outcomes' = outcomes /\ trace' = Append(trace, pc) /\ pc' = After(pc)

\* a column that the step at pc looks up is absent when it does
RequiredAbsent ==
    \/ pc = "drop_features" /\ ~(drop_targets \subseteq df.cols)
    \/ pc = "adjust_invalid_driving_experience"
         /\ ~({"Age", "Driving_experience"} \subseteq df.cols)
    \/ pc = "clean_vehicle_and_insurance_info"
         /\ \/ {"Vehicle_type", " Vehicle_type"} \cap df.cols = {}
            \/ {"Year_of_manufacture", " Year_of_manufacture"} \cap df.cols = {}
    \/ pc = "split_insurance_dates" /\ "Insurance_period" \notin df.cols

\* the tables d and e agree on everything but the column c
SameExcept(d, e, c) ==
    /\ d.cols = e.cols
    /\ Len(d.rows) = Len(e.rows)
    /\ \A i \in 1..Len(d.rows) :
         /\ d.rows[i].idx = e.rows[i].idx
         /\ \A k \in d.cols \ {c} : d.rows[i].v[k] = e.rows[i].v[k]

\* C6 (as claimed): a step whose optional column is absent leaves the whole
\* table unchanged and clean() continues; a step that finds a required column
\* absent raises and no later step runs.
C6_MissingColumnPolicy ==
    [][/\ (\/ pc = "fill_missing_privileges" /\ "Privileges" \notin df.cols
           \/ pc = "standardize_colors" /\ "Color" \notin df.cols
           \/ pc = "standardize_brands_and_models" /\ "Brand" \notin df.cols
           \/ pc = "standardize_brands_and_models" /\ "Model" \notin df.cols
           \/ pc = "map_city_to_region" /\ "City" \notin df.cols)
          => (df' = df /\ Continues)
       /\ RequiredAbsent => Raises]_vars

\* C6 (amended): a step whose optional column Privileges, Color or City is
\* absent leaves the whole table unchanged and clean() continues;
\* standardize_brands_and_models always continues, with Brand absent it changes
\* at most the column Model, with Model absent at most the column Brand, and
\* with both absent nothing; a step that finds a required column absent raises
\* and no later step runs.
C6_MissingColumnPolicyPerColumn ==
    [][/\ (\/ pc = "fill_missing_privileges" /\ "Privileges" \notin df.cols
           \/ pc = "standardize_colors" /\ "Color" \notin df.cols
           \/ pc = "map_city_to_region" /\ "City" \notin df.cols)
          => (df' = df /\ Continues)
       /\ pc = "standardize_brands_and_models" =>
            /\ Continues
            /\ "Brand" \notin df.cols => SameExcept(df, df', "Model")
            /\ "Model" \notin df.cols => SameExcept(df, df', "Brand")
            /\ ("Brand" \notin df.cols /\ "Model" \notin df.cols) => df' = df
       /\ RequiredAbsent => Raises]_vars

C6_Witness ==
    /\ pc = "map_city_to_region"
    /\ "Brand" \notin df.cols
    /\ "Model" \in df.cols
    /\ \E r \in Range(df.rows) : r.v["Model"] = Some("Unknown")
    /\ \E k \in Indexes(input) : InputCell(k, "Model") = Some(".")

\* C7: no step adds a row or brings one back (the index labels after a step
\* are among those before it, and they are not more), and a step that removes a
\* row is adjust_invalid_driving_experience or clean_vehicle_and_insurance_info.
C7_RowsOnlyShrink ==
    [][/\ Indexes(df') \subseteq Indexes(df)
       /\ Len(df'.rows) <= Len(df.rows)
       /\ Len(df'.rows) < Len(df.rows) =>
            pc \in {"adjust_invalid_driving_experience", "clean_vehicle_and_insurance_info"}]_vars

C7_Witness ==
    /\ Returned
    /\ Len(Val(result).rows) = 1
    /\ Len(input.rows) = 2
    /\ Val(result).rows[1].idx = 1

\* the cell after the rename the step applies first ('Lada (cyr)' to 'Lada' in
\* Brand, '.' to 'Unknown' in Model)
Renamed(c, col) ==
    IF col = "Brand" /\ c = Some("Lada (cyr)") THEN Some("Lada")
    ELSE IF col = "Model" /\ c = Some(".") THEN Some("Unknown")
    ELSE c

\* in the step from df to df', the n most frequent values of col keep their
\* name and every other cell becomes 'Other'
TopNCollapsed(col, n) ==
    LET pre    == [i \in 1..Len(df.rows) |-> Renamed(df.rows[i].v[col], col)]
        post   == [i \in 1..Len(df.rows) |-> df'.rows[i].v[col]]
        values == {Val(pre[i]) : i \in {j \in 1..Len(pre) : ~IsNone(pre[j])}}
        cnt(x) == Cardinality({i \in 1..Len(pre) : pre[i] = Some(x)})
        kept   == {x \in values : \A i \in 1..Len(pre) : pre[i] = Some(x) => post[i] = Some(x)}
    IN /\ \A i \in 1..Len(pre) :
            /\ post[i] = pre[i] \/ post[i] = Some("Other")
            /\ IsNone(pre[i]) => post[i] = Some("Other")
            /\ (~IsNone(pre[i]) /\ Val(pre[i]) \notin kept) => post[i] = Some("Other")
       /\ Cardinality(kept) = Min(n, Cardinality(values))
       /\ \A x \in kept : \A y \in values \ kept : cnt(x) >= cnt(y)

\* C8: standardize_brands_and_models keeps every row, keeps the name of exactly
\* the 37 most frequent brands after the rename (all of them when there are
\* fewer) and of exactly the 50 most frequent models, turns every other cell,
\* a missing one included, into 'Other', and no value that lost its name is
\* more frequent than one that kept it.
C8_TopNCollapsing ==
    [][pc = "standardize_brands_and_models" =>
         /\ Len(df'.rows) = Len(df.rows)
         /\ TopNCollapsed("Brand", 37)
         /\ TopNCollapsed("Model", 50)]_vars

\* two brands tie at the cut-off: equally frequent, one kept and one collapsed
C8_Witness ==
    /\ pc = "map_city_to_region"
    /\ \E a, b \in Range(input.rows) :
         /\ ~IsNone(a.v["Brand"]) /\ ~IsNone(b.v["Brand"])
         /\ CountOf(Column(input, "Brand"), Val(a.v["Brand"]))
              = CountOf(Column(input, "Brand"), Val(b.v["Brand"]))
         /\ RowAt(df, a.idx).v["Brand"] = a.v["Brand"]
         /\ RowAt(df, b.idx).v["Brand"] = Some("Other")
    /\ \E r \in Range(df.rows) : IsNone(RowAt(input, r.idx).v["Brand"])

\* C9: adjust_invalid_driving_experience removes a row with
\* Driving_experience > Age; reduces the experience of a remaining row with
\* Age_gap < 18 by exactly 18 - Age_gap and removes the row if the result is
\* negative; leaves the experience of a row with Age_gap >= 18 as it is (18
\* included); never changes Age; and leaves no column Age_gap.
C9_AdjustRule ==
    [][(pc = "adjust_invalid_driving_experience"
          /\ {"Age", "Driving_experience"} \subseteq df.cols) =>
         /\ "Age_gap" \notin df'.cols
         /\ \A r \in Range(df.rows) :
              LET kept == r.idx \in Indexes(df')
                  out  == RowAt(df', r.idx)
                  age  == Val(r.v["Age"])
                  exp  == Val(r.v["Driving_experience"])
                  gap  == age - exp
              IN /\ kept => out.v["Age"] = r.v["Age"]
                 /\ (~IsNone(r.v["Age"]) /\ ~IsNone(r.v["Driving_experience"])) =>
                      /\ exp > age => ~kept
                      /\ (exp <= age /\ gap < 18) =>
                           IF exp - (18 - gap) < 0 THEN ~kept
                           ELSE kept /\ out.v["Driving_experience"] = Some(exp - (18 - gap))
                      /\ gap >= 18 =>
                           IF exp < 0 THEN ~kept
                           ELSE kept /\ out.v["Driving_experience"] = Some(exp)]_vars

C9_Witness ==
    /\ pc = "clean_vehicle_and_insurance_info"
    /\ \E r \in Range(df.rows) :
         /\ InputCell(r.idx, "Age") = Some(20)
         /\ InputCell(r.idx, "Driving_experience") = Some(5)
         /\ r.v["Driving_experience"] = Some(2)
    /\ \E k \in Indexes(input) \ Indexes(df) :
         /\ InputCell(k, "Age") = Some(20)
         /\ InputCell(k, "Driving_experience") = Some(25)

LaterSteps ==
    {"clean_vehicle_and_insurance_info", "split_insurance_dates",
     "calculate_insurance_duration", "fill_missing_privileges", "standardize_colors",
     "standardize_brands_and_models", "map_city_to_region", "return"}

\* the rows of a returned table started driving at 18 or later
StartedAtEighteen ==
    result # None =>
      /\ \A r \in Range(Val(result).rows) :
           (~IsNone(r.v["Age"]) /\ ~IsNone(r.v["Driving_experience"])) =>
              /\ Val(r.v["Age"]) - Val(r.v["Driving_experience"]) >= 18
              /\ Val(r.v["Age"]) >= 18
      /\ \A k \in Indexes(input) :
           Lt(InputCell(k, "Age"), Some(18)) => k \notin Indexes(Val(result))

\* a step after adjust_invalid_driving_experience leaves Age and
\* Driving_experience of every row it keeps as they are
AgeAndExperienceKept ==
    pc \in LaterSteps =>
      \A r \in Range(df'.rows) :
         /\ r.idx \in Indexes(df)
         /\ r.v["Age"] = RowAt(df, r.idx).v["Age"]
         /\ r.v["Driving_experience"] = RowAt(df, r.idx).v["Driving_experience"]

\* C10: every row of a returned table that has both an Age and a
\* Driving_experience has Age - Driving_experience >= 18 and Age >= 18; no row
\* loaded with an Age below 18 is in a returned table; and no step after
\* adjust_invalid_driving_experience changes the Age or the
\* Driving_experience of a row.
C10_StartedAtEighteen == []StartedAtEighteen /\ [][AgeAndExperienceKept]_vars

C10_Witness ==
    /\ Returned
    /\ \E r \in Range(Val(result).rows) :
         /\ r.v["Age"] = Some(20)
         /\ r.v["Driving_experience"] = Some(2)
         /\ InputCell(r.idx, "Driving_experience") = Some(5)
    /\ \E k \in Indexes(input) \ Indexes(Val(result)) :
         /\ InputCell(k, "Age") = Some(17)
         /\ InputCell(k, "Driving_experience") = Some(0)

====
